---- MODULE Spec2Model ----
(***************************************************************************)
(* A model of src/transformer.py: CustomMultiheadAttention, the causal     *)
(* decoder stack (TransformerDecoderBlock, TransformerDecoder,             *)
(* create_mask) and the encoder stack with its classifier head             *)
(* (FeedForward, EncoderLayer, Encoder, Transformer,                       *)
(* TransformerClassifier).                                                 *)
(*                                                                         *)
(* Tensors are nested sequences (1-based; x[l][b][e] is element            *)
(* [l-1, b-1, e-1] of the torch tensor) and their shape is read off with   *)
(* Len.  Token ids keep their 0-based values.                              *)
(*                                                                         *)
(* Arithmetic is integer arithmetic.  Activations and weights are          *)
(* integers; a probability is a fixed-point fraction with denominator      *)
(* One = 2^FracBits; exp is the power of two of the same fixed point,      *)
(* taken relative to the row maximum as softmax does, and it underflows    *)
(* to 0; divisions round to nearest.  float('-inf') and NaN are the two    *)
(* values NegInf and NaN, and NaN spreads through every operation the way  *)
(* it does through float arithmetic.  Dropout probabilities are percent.   *)
(***************************************************************************)
EXTENDS Integers, Sequences, FiniteSets, TLC

\* ---------------------------------------------------------------- bounds

\* most token ids in one batch (sequence length times batch size)
MaxCells == 4
\* number of distinct weight initialisations a constructor may draw
NumSeeds == 2
\* fractional bits of a probability
FracBits == 6

One == 2 ^ FracBits

\* ------------------------------------------------------------- numerics

\* float('-inf'), written by masked_fill
NegInf == -1000000
\* the NaN a softmax over a row of -inf produces
NaN == -2000000

\* the sequence a function over 1..n is, with every element evaluated
Tensor(f) == f \o << >>

Max2(a, b) == IF a >= b THEN a ELSE b

Abs(a) == IF a >= 0 THEN a ELSE -a

\* a / b rounded to the nearest integer, half away from zero, b > 0
RDiv(a, b) == IF a >= 0 THEN (2 * a + b) \div (2 * b) ELSE -((2 * (-a) + b) \div (2 * b))

\* floor of the square root
ISqrt(n) == CHOOSE r \in 0..n : r * r <= n /\ (r + 1) * (r + 1) > n

RECURSIVE SumSeq(_)
SumSeq(s) == IF Len(s) = 0 THEN 0 ELSE s[1] + SumSeq(Tail(s))

RECURSIVE MaxSeq(_)
MaxSeq(s) == IF Len(s) = 1 THEN s[1] ELSE Max2(s[1], MaxSeq(Tail(s)))

HasNaN(v) == \E k \in 1..Len(v) : v[k] = NaN

NaNVec(n) == Tensor([k \in 1..n |-> NaN])

\* a + b on vectors
VecAdd(a, b) ==
    IF HasNaN(a) \/ HasNaN(b) THEN NaNVec(Len(a))
    ELSE Tensor([k \in 1..Len(a) |-> a[k] + b[k]])

\* a + b on [*, *, embed] tensors
Add3(x, y) == Tensor([i \in 1..Len(x) |-> Tensor([j \in 1..Len(x[i]) |-> VecAdd(x[i][j], y[i][j])])])

\* tensor.transpose(0, 1)
Transpose01(x) ==
    IF Len(x) = 0 THEN << >>
    ELSE Tensor([j \in 1..Len(x[1]) |-> Tensor([i \in 1..Len(x) |-> x[i][j]])])

\* the shape of a rank-3 tensor
Shape3(x) ==
    IF Len(x) = 0 THEN <<0, 0, 0>>
    ELSE IF Len(x[1]) = 0 THEN <<Len(x), 0, 0>>
    ELSE <<Len(x), Len(x[1]), Len(x[1][1])>>

\* the shape of a rank-2 tensor
Shape2(x) == IF Len(x) = 0 THEN <<0, 0>> ELSE <<Len(x), Len(x[1])>>

\* ---------------------------------------------------- torch.nn primitives

\* the value a weight gets at initialisation, drawn by seed
InitValue(seed, tag, i, j) ==
    ((seed * seed * 3 + tag * 7 + i * 5 + j * 11 + seed * i * j + tag * i) % 3) - 1

\* nn.Linear(in_features, out_features): a weight matrix and a bias vector
NewLinear(seed, tag, in_features, out_features) ==
    [weight |-> Tensor([o \in 1..out_features |-> Tensor([i \in 1..in_features |-> InitValue(seed, tag, o, i)])]),
     bias |-> Tensor([o \in 1..out_features |-> InitValue(seed, tag + 1, o, 0)])]

\* nn.Linear on one vector
LinearVec(lin, v) ==
    IF HasNaN(v) THEN NaNVec(Len(lin.bias))
    ELSE Tensor([o \in 1..Len(lin.bias) |->
            SumSeq(Tensor([i \in 1..Len(v) |-> lin.weight[o][i] * v[i]])) + lin.bias[o]])

\* nn.Linear on a [*, *, in_features] tensor: the last axis is transformed
Linear3(lin, x) == Tensor([i \in 1..Len(x) |-> Tensor([j \in 1..Len(x[i]) |-> LinearVec(lin, x[i][j])])])

\* nn.ReLU on one vector
ReLUVec(v) == Tensor([k \in 1..Len(v) |-> IF v[k] = NaN THEN NaN ELSE Max2(v[k], 0)])

\* nn.LayerNorm(embed_dim): scale 1 and shift 0 at initialisation
NewLayerNorm(embed_dim) ==
    [weight |-> Tensor([k \in 1..embed_dim |-> 1]), bias |-> Tensor([k \in 1..embed_dim |-> 0])]

\* nn.LayerNorm on one vector: zero mean, unit variance over the embedding
\* axis, then the learned scale and shift
LayerNormVec(ln, v) ==
    IF HasNaN(v) THEN NaNVec(Len(v))
    ELSE LET n == Len(v)
             total == SumSeq(v)
             centred == Tensor([k \in 1..n |-> n * v[k] - total])
             sd == ISqrt(SumSeq(Tensor([k \in 1..n |-> centred[k] * centred[k]])) \div n)
         IN Tensor([k \in 1..n |-> RDiv(centred[k], Max2(sd, 1)) * ln.weight[k] + ln.bias[k]])

LayerNorm3(ln, x) == Tensor([i \in 1..Len(x) |-> Tensor([j \in 1..Len(x[i]) |-> LayerNormVec(ln, x[i][j])])])

\* whether nn.Dropout keeps element (i, j, k) under random draw rng
Keep(rng, i, j, k) == (rng + i + 2 * j + 3 * k) % 2 = 0

\* dropout that does not look at the mode: it drops in eval mode too
DropoutElemAlways(v, p, training, keep) ==
    IF v = NaN THEN NaN
    ELSE IF p = 100 THEN 0
    ELSE IF p = 0 THEN v
    ELSE IF keep THEN RDiv(v * 100, 100 - p)
    ELSE 0

\* nn.Dropout(p) on one element: identity in eval mode; in training mode a
\* dropped element is 0 and a kept one is scaled by 1 / (1 - p)
DropoutElem(v, p, training, keep) ==
    IF ~training THEN v
    ELSE IF v = NaN THEN NaN
    ELSE IF p = 100 THEN 0
    ELSE IF p = 0 THEN v
    ELSE IF keep THEN RDiv(v * 100, 100 - p)
    ELSE 0

\* nn.Dropout(p) on a rank-3 tensor
Dropout3(x, p, training, rng) ==
    Tensor([i \in 1..Len(x) |-> Tensor([j \in 1..Len(x[i]) |-> Tensor([k \in 1..Len(x[i][j]) |->
        DropoutElem(x[i][j][k], p, training, Keep(rng, i, j, k))])])])

\* --------------------------------------------- CustomMultiheadAttention

\* attn_mask=None
NoMask == << >>

\* CustomMultiheadAttention.__init__ once the assert has passed
NewAttention(seed, tag, embed_dim, num_heads, dropout) ==
    [embed_dim |-> embed_dim,
     num_heads |-> num_heads,
     dropout |-> dropout,
     head_dim |-> embed_dim \div num_heads,
     query |-> NewLinear(seed, tag, embed_dim, embed_dim),
     key |-> NewLinear(seed, tag + 2, embed_dim, embed_dim),
     value |-> NewLinear(seed, tag + 4, embed_dim, embed_dim),
     out |-> NewLinear(seed, tag + 6, embed_dim, embed_dim)]

\* the assert of CustomMultiheadAttention.__init__; num_heads = 0 raises
\* ZeroDivisionError one line earlier
AttentionConfigError(embed_dim, num_heads) ==
    IF num_heads = 0 THEN "ZeroDivisionError"
    ELSE IF (embed_dim \div num_heads) * num_heads # embed_dim THEN "AssertionError"
    ELSE "none"

\* X.view(batch_size, seq_len, num_heads, head_dim) of a batch-first tensor:
\* the embedding axis is cut into num_heads runs of head_dim channels
ViewHeads(x, num_heads, head_dim) ==
    Tensor([b \in 1..Len(x) |-> Tensor([l \in 1..Len(x[b]) |-> Tensor([h \in 1..num_heads |-> Tensor([d \in 1..head_dim |->
        x[b][l][(h - 1) * head_dim + d]])])])])

\* tensor.transpose(1, 2) of a rank-4 tensor
Transpose12(x) ==
    Tensor([b \in 1..Len(x) |->
        IF Len(x[b]) = 0 THEN << >>
        ELSE Tensor([h \in 1..Len(x[b][1]) |-> Tensor([l \in 1..Len(x[b]) |-> x[b][l][h]])])])

\* .contiguous().view(batch_size * num_heads, seq_len, head_dim): the two
\* leading axes of [batch, heads, seq, head_dim] become one
MergeLeading(x, num_heads) ==
    Tensor([s \in 1..(Len(x) * num_heads) |-> x[((s - 1) \div num_heads) + 1][((s - 1) % num_heads) + 1]])

\* the split without transpose(1, 2): the memory of [batch, seq, heads, head_dim]
\* read as [batch * heads, seq, head_dim]
SplitHeadsNoTranspose(x, num_heads, head_dim) ==
    Tensor([s \in 1..(Len(x[1]) * num_heads) |-> Tensor([l \in 1..Len(x) |-> Tensor([d \in 1..head_dim |->
        x[(((((s - 1) % num_heads) * Len(x) * head_dim) + ((l - 1) * head_dim) + (d - 1))
                \div (num_heads * head_dim)) + 1]
         [((s - 1) \div num_heads) + 1]
         [(((((s - 1) % num_heads) * Len(x) * head_dim) + ((l - 1) * head_dim) + (d - 1))
                % (num_heads * head_dim)) + 1]])])])

\* lines 35-42: [seq, batch, embed] to [batch * heads, seq, head_dim]
SplitHeads(x, num_heads, head_dim) ==
    MergeLeading(Transpose12(ViewHeads(Transpose01(x), num_heads, head_dim)), num_heads)

\* lines 58-61: [batch * heads, seq, head_dim] back to [seq, batch, embed]
MergeHeads(x, batch_size, num_heads, head_dim) ==
    Transpose01(
        Tensor([b \in 1..batch_size |-> Tensor([l \in 1..Len(x[1]) |-> Tensor([e \in 1..(num_heads * head_dim) |->
            x[(b - 1) * num_heads + ((e - 1) \div head_dim) + 1][l][((e - 1) % head_dim) + 1]])])]))

\* one entry of torch.bmm(Q, K.transpose(1, 2)) / (head_dim ** 0.5)
Score(q, k, head_dim) ==
    IF HasNaN(q) \/ HasNaN(k) THEN NaN
    ELSE RDiv(SumSeq(Tensor([d \in 1..Len(q) |-> q[d] * k[d]])), Max2(ISqrt(head_dim), 1))

\* whether a [rows, cols] mask broadcasts against [*, seq_len, seq_len]
MaskFits(attn_mask, seq_len) ==
    /\ Len(attn_mask) \in {1, seq_len}
    /\ Len(attn_mask[1]) \in {1, seq_len}

\* the mask entry that broadcasting lays over score (i, j)
MaskAt(attn_mask, i, j) ==
    attn_mask[IF Len(attn_mask) = 1 THEN 1 ELSE i][IF Len(attn_mask[1]) = 1 THEN 1 ELSE j]

\* masked_fill whose result is dropped: the scores stay as they were
MaskedFillDropped(row, attn_mask, i) == row

\* masked_fill with 0 as the fill value: a masked score is 0, not -inf
MaskedFillZero(row, attn_mask, i) ==
    IF attn_mask = NoMask THEN row
    ELSE Tensor([j \in 1..Len(row) |-> IF MaskAt(attn_mask, i, j) THEN 0 ELSE row[j]])

\* attn_scores.masked_fill(attn_mask, float('-inf')) on one row of scores
MaskedFill(row, attn_mask, i) ==
    IF attn_mask = NoMask THEN row
    ELSE Tensor([j \in 1..Len(row) |-> IF MaskAt(attn_mask, i, j) THEN NegInf ELSE row[j]])

\* exp(d) for d <= 0, in fixed point
Exp2(d) == IF -d > FracBits THEN 0 ELSE 2 ^ (FracBits + d)

\* F.softmax over one row of scores
Softmax(row) ==
    IF HasNaN(row) \/ (\A j \in 1..Len(row) : row[j] = NegInf) THEN NaNVec(Len(row))
    ELSE LET top == MaxSeq(row)
             e == Tensor([j \in 1..Len(row) |-> IF row[j] = NegInf THEN 0 ELSE Exp2(row[j] - top)])
             total == SumSeq(e)
         IN Tensor([j \in 1..Len(row) |-> (e[j] * One) \div total])

\* one row of torch.bmm(attn_probs, V)
WeightedSum(probs, V, head_dim) ==
    IF HasNaN(probs) \/ (\E j \in 1..Len(V) : HasNaN(V[j])) THEN NaNVec(head_dim)
    ELSE Tensor([d \in 1..head_dim |-> RDiv(SumSeq(Tensor([j \in 1..Len(probs) |-> probs[j] * V[j][d]])), One)])

\* attn_probs.view(batch_size, num_heads, seq_len, seq_len).mean(dim=1)
MeanOverHeads(attn_probs, batch_size, num_heads) ==
    Tensor([b \in 1..batch_size |-> Tensor([i \in 1..Len(attn_probs[1]) |-> Tensor([j \in 1..Len(attn_probs[1][i]) |->
        LET heads == Tensor([h \in 1..num_heads |-> attn_probs[(b - 1) * num_heads + h][i][j]])
        IN IF HasNaN(heads) THEN NaN ELSE SumSeq(heads) \div num_heads])])])

\* one batch of torch.bmm(Q, K.transpose(1, 2)) / (head_dim ** 0.5)
Scores(Q, K, head_dim) ==
    Tensor([s \in 1..Len(Q) |-> Tensor([i \in 1..Len(Q[s]) |-> Tensor([j \in 1..Len(K[s]) |->
        Score(Q[s][i], K[s][j], head_dim)])])])

\* lines 47-50: the mask, when one is given, laid over every slice
MaskedScores(attn_scores, attn_mask) ==
    Tensor([s \in 1..Len(attn_scores) |-> Tensor([i \in 1..Len(attn_scores[s]) |->
        MaskedFill(attn_scores[s][i], attn_mask, i)])])

\* F.softmax(attn_scores, dim=-1)
SoftmaxRows(attn_scores) ==
    Tensor([s \in 1..Len(attn_scores) |-> Tensor([i \in 1..Len(attn_scores[s]) |->
        Softmax(attn_scores[s][i])])])

\* self.attention_dropout(attn_probs)
AttentionDropout(attn_probs, attn, training, rng) ==
    Dropout3(attn_probs, attn.dropout, training, rng)

\* lines 45-53: the attention probabilities of every slice
AttentionProbs(attn, Q, K, attn_mask, training, rng) ==
    AttentionDropout(SoftmaxRows(MaskedScores(Scores(Q, K, attn.head_dim), attn_mask)),
                     attn, training, rng)

\* torch.bmm(attn_probs, V)
WeightedSums(attn_probs, V, head_dim) ==
    Tensor([s \in 1..Len(attn_probs) |-> Tensor([i \in 1..Len(attn_probs[s]) |->
        WeightedSum(attn_probs[s][i], V[s], head_dim)])])

\* lines 55-70: what forward returns, from the probabilities and the values
AttentionResult(attn, batch_size, attn_probs, V) ==
    [error |-> "none",
     output |-> Linear3(attn.out,
                    MergeHeads(WeightedSums(attn_probs, V, attn.head_dim),
                               batch_size, attn.num_heads, attn.head_dim)),
     attn_map |-> MeanOverHeads(attn_probs, batch_size, attn.num_heads)]

\* CustomMultiheadAttention.forward; the first axis of query is read as the
\* sequence and the second as the batch
AttentionForward(attn, query, key, value, attn_mask, training, rng) ==
    IF attn_mask # NoMask /\ ~MaskFits(attn_mask, Len(query))
    THEN [error |-> "RuntimeError", output |-> << >>, attn_map |-> << >>]
    ELSE AttentionResult(attn, Len(query[1]),
            AttentionProbs(attn,
                SplitHeads(Linear3(attn.query, query), attn.num_heads, attn.head_dim),
                SplitHeads(Linear3(attn.key, key), attn.num_heads, attn.head_dim),
                attn_mask, training, rng),
            SplitHeads(Linear3(attn.value, value), attn.num_heads, attn.head_dim))

\* ------------------------------------------------------- decoder stack

\* the mask made with diagonal=0: a position may not attend to itself either
create_mask_diagonal0(seq_len) ==
    Tensor([i \in 1..seq_len |-> Tensor([j \in 1..seq_len |-> j >= i])])

\* create_mask(seq_len): torch.triu(torch.ones(n, n), diagonal=1).bool()
create_mask(seq_len) == Tensor([i \in 1..seq_len |-> Tensor([j \in 1..seq_len |-> j >= i + 1])])

\* nn.Embedding(num_embeddings, embedding_dim)
NewEmbedding(seed, tag, num_embeddings, embedding_dim) ==
    Tensor([v \in 1..num_embeddings |-> Tensor([e \in 1..embedding_dim |-> InitValue(seed, tag, v, e)])])

\* a decoder block whose attention is built with the block's dropout
NewDecoderBlockAttentionDropout(seed, tag, embed_dim, num_heads, ff_hidden_dim, dropout) ==
    [self_attn |-> NewAttention(seed, tag, embed_dim, num_heads, dropout),
     layernorm1 |-> NewLayerNorm(embed_dim),
     ffn1 |-> NewLinear(seed, tag + 8, embed_dim, ff_hidden_dim),
     ffn2 |-> NewLinear(seed, tag + 10, ff_hidden_dim, embed_dim),
     layernorm2 |-> NewLayerNorm(embed_dim),
     dropout |-> dropout]

\* TransformerDecoderBlock.__init__
NewDecoderBlock(seed, tag, embed_dim, num_heads, ff_hidden_dim, dropout) ==
    [self_attn |-> NewAttention(seed, tag, embed_dim, num_heads, 0),
     layernorm1 |-> NewLayerNorm(embed_dim),
     ffn1 |-> NewLinear(seed, tag + 8, embed_dim, ff_hidden_dim),
     ffn2 |-> NewLinear(seed, tag + 10, ff_hidden_dim, embed_dim),
     layernorm2 |-> NewLayerNorm(embed_dim),
     dropout |-> dropout]

\* the ffn of a decoder block: Linear, ReLU, Linear
DecoderFFN(block, x) ==
    Tensor([i \in 1..Len(x) |-> Tensor([j \in 1..Len(x[i]) |->
        LinearVec(block.ffn2, ReLUVec(LinearVec(block.ffn1, x[i][j])))])])

\* lines 94-97: the feed-forward half of a block, x being layernorm1's output
DecoderBlockFeedForward(block, x, attn_map, training, rng) ==
    [error |-> "none",
     x |-> LayerNorm3(block.layernorm2,
               Add3(x, Dropout3(DecoderFFN(block, x), block.dropout, training, rng + 2))),
     attn_map |-> attn_map]

\* lines 91-97: what follows the attention call
DecoderBlockResidual(block, x, attn, training, rng) ==
    IF attn.error # "none" THEN [error |-> attn.error, x |-> << >>, attn_map |-> << >>]
    ELSE DecoderBlockFeedForward(block,
            LayerNorm3(block.layernorm1,
                Add3(x, Dropout3(attn.output, block.dropout, training, rng + 1))),
            attn.attn_map, training, rng)

\* TransformerDecoderBlock.forward
DecoderBlockForward(block, x, mask, training, rng) ==
    DecoderBlockResidual(block, x,
        AttentionForward(block.self_attn, x, x, x, mask, training, rng), training, rng)

\* what nn.Dropout(p) raises at construction
DropoutConfigError(p) == IF p < 0 \/ p > 100 THEN "ValueError" ELSE "none"

\* what TransformerDecoder.__init__ raises for a configuration, "none" when
\* it returns a model
DecoderConfigError(cfg) ==
    IF cfg.num_layers > 0 /\ AttentionConfigError(cfg.embed_dim, cfg.num_heads) # "none"
    THEN AttentionConfigError(cfg.embed_dim, cfg.num_heads)
    ELSE DropoutConfigError(cfg.dropout)

\* TransformerDecoder.__init__ for a configuration it accepts
NewDecoder(cfg, seed) ==
    [kind |-> "decoder",
     config |-> cfg,
     training |-> TRUE,
     token_embedding |-> NewEmbedding(seed, 1, cfg.vocab_size, cfg.embed_dim),
     position_embedding |-> NewEmbedding(seed, 2, cfg.max_seq_len, cfg.embed_dim),
     layers |-> Tensor([k \in 1..cfg.num_layers |->
                    NewDecoderBlock(seed, 20 * k, cfg.embed_dim, cfg.num_heads,
                                    cfg.ff_hidden_dim, cfg.dropout)]),
     fc_out |-> NewLinear(seed, 3, cfg.embed_dim, cfg.vocab_size),
     dropout |-> cfg.dropout]

\* whether every id of a rank-2 id tensor indexes a table of the given size
IdsInRange(ids, size) ==
    \A i \in 1..Len(ids) : \A j \in 1..Len(ids[i]) : ids[i][j] >= 0 /\ ids[i][j] < size

\* lines 122-123: x and attn_maps after one more layer has returned r
Collect(acc, r) ==
    IF r.error # "none" THEN [error |-> r.error, x |-> << >>, attn_maps |-> << >>]
    ELSE [error |-> "none", x |-> r.x, attn_maps |-> Append(acc.attn_maps, r.attn_map)]

\* lines 121-123: the loop over self.layers, from layer k on
RECURSIVE DecoderLayers(_, _, _, _, _, _)
DecoderLayers(layers, k, acc, mask, training, rng) ==
    IF k > Len(layers) \/ acc.error # "none" THEN acc
    ELSE DecoderLayers(layers, k + 1,
            Collect(acc, DecoderBlockForward(layers[k], acc.x, mask, training, rng + 3 * k)),
            mask, training, rng)

\* torch.arange(0, seq_len).unsqueeze(1).expand(seq_len, batch_size)
DecoderPositions(seq_len, batch_size) ==
    Tensor([l \in 1..seq_len |-> Tensor([b \in 1..batch_size |-> l - 1])])

\* self.token_embedding(x) + self.position_embedding(positions)
Embed(token_embedding, position_embedding, x, positions) ==
    Tensor([i \in 1..Len(x) |-> Tensor([j \in 1..Len(x[i]) |->
        VecAdd(token_embedding[x[i][j] + 1], position_embedding[positions[i][j] + 1])])])

\* the hidden states returned in place of the logits: fc_out is not applied
DecoderOutputHidden(m, r) ==
    IF r.error # "none" THEN [error |-> r.error, logits |-> << >>, attn_maps |-> << >>]
    ELSE [error |-> "none", logits |-> r.x, attn_maps |-> r.attn_maps]

\* lines 125-127: the logits and the maps, from what the layers return
DecoderOutput(m, r) ==
    IF r.error # "none" THEN [error |-> r.error, logits |-> << >>, attn_maps |-> << >>]
    ELSE [error |-> "none", logits |-> Linear3(m.fc_out, r.x), attn_maps |-> r.attn_maps]

\* TransformerDecoder.forward on token ids x of shape [seq_len, batch_size]
DecoderForward(m, x, mask, rng) ==
    IF \/ ~IdsInRange(x, Len(m.token_embedding))
       \/ ~IdsInRange(DecoderPositions(Len(x), Len(x[1])), Len(m.position_embedding))
    THEN [error |-> "IndexError", logits |-> << >>, attn_maps |-> << >>]
    ELSE DecoderOutput(m,
            DecoderLayers(m.layers, 1,
                [error |-> "none",
                 x |-> Dropout3(Embed(m.token_embedding, m.position_embedding, x,
                                      DecoderPositions(Len(x), Len(x[1]))),
                                m.dropout, m.training, rng),
                 attn_maps |-> << >>],
                mask, m.training, rng))

\* ------------------------------------------------------- encoder stack

\* FeedForward.__init__
NewFeedForward(seed, tag, embed_size, forward_expansion) ==
    [fc1 |-> NewLinear(seed, tag, embed_size, forward_expansion * embed_size),
     fc2 |-> NewLinear(seed, tag + 2, forward_expansion * embed_size, embed_size)]

\* FeedForward.forward
FeedForward(ff, x) ==
    Tensor([i \in 1..Len(x) |-> Tensor([j \in 1..Len(x[i]) |->
        LinearVec(ff.fc2, ReLUVec(LinearVec(ff.fc1, x[i][j])))])])

\* EncoderLayer.__init__
NewEncoderLayer(seed, tag, embed_size, heads, forward_expansion, dropout) ==
    [norm1 |-> NewLayerNorm(embed_size),
     norm2 |-> NewLayerNorm(embed_size),
     attention |-> NewAttention(seed, tag, embed_size, heads, 0),
     feed_forward |-> NewFeedForward(seed, tag + 8, embed_size, forward_expansion),
     dropout |-> dropout]

\* lines 274-276: the feed-forward half of a layer, x being the dropped norm1 output
EncoderLayerFeedForward(layer, x, training, rng) ==
    [error |-> "none",
     out |-> Dropout3(LayerNorm3(layer.norm2, Add3(FeedForward(layer.feed_forward, x), x)),
                      layer.dropout, training, rng + 2)]

\* lines 273-276: what follows the attention call
EncoderLayerResidual(layer, x, attn, training, rng) ==
    IF attn.error # "none" THEN [error |-> attn.error, out |-> << >>]
    ELSE EncoderLayerFeedForward(layer,
            Dropout3(LayerNorm3(layer.norm1, Add3(attn.output, x)),
                     layer.dropout, training, rng + 1),
            training, rng)

\* EncoderLayer.forward; x is what Encoder.forward hands over
EncoderLayerForward(layer, x, mask, training, rng) ==
    EncoderLayerResidual(layer, x,
        AttentionForward(layer.attention, x, x, x, mask, training, rng), training, rng)

\* what TransformerClassifier.__init__ raises for a configuration
ClassifierConfigError(cfg) ==
    IF cfg.num_layers > 0 /\ AttentionConfigError(cfg.embed_dim, cfg.num_heads) # "none"
    THEN AttentionConfigError(cfg.embed_dim, cfg.num_heads)
    ELSE DropoutConfigError(cfg.dropout)

\* TransformerClassifier.__init__ (with Transformer.__init__ and
\* Encoder.__init__) for a configuration it accepts
NewClassifier(cfg, seed) ==
    [kind |-> "classifier",
     config |-> cfg,
     training |-> TRUE,
     word_embedding |-> NewEmbedding(seed, 1, cfg.vocab_size, cfg.embed_dim),
     position_embedding |-> NewEmbedding(seed, 2, cfg.max_seq_len, cfg.embed_dim),
     layers |-> Tensor([k \in 1..cfg.num_layers |->
                    NewEncoderLayer(seed, 20 * k, cfg.embed_dim, cfg.num_heads,
                                    cfg.forward_expansion, cfg.dropout)]),
     fc |-> NewLinear(seed, 3, cfg.embed_dim, cfg.num_classes),
     dropout |-> cfg.dropout]

\* lines 305-306: the loop over self.layers, from layer k on
RECURSIVE EncoderLayers(_, _, _, _, _, _)
EncoderLayers(layers, k, acc, mask, training, rng) ==
    IF k > Len(layers) \/ acc.error # "none" THEN acc
    ELSE EncoderLayers(layers, k + 1,
            EncoderLayerForward(layers[k], acc.out, mask, training, rng + 3 * k),
            mask, training, rng)

\* torch.arange(0, seq_length).expand(N, seq_length)
EncoderPositions(N, seq_length) ==
    Tensor([n \in 1..N |-> Tensor([l \in 1..seq_length |-> l - 1])])

\* Encoder.forward (through Transformer.forward) on token ids x of shape
\* [N, seq_length]
EncoderForward(m, x, mask, rng) ==
    IF \/ ~IdsInRange(x, Len(m.word_embedding))
       \/ ~IdsInRange(EncoderPositions(Len(x), Len(x[1])), Len(m.position_embedding))
    THEN [error |-> "IndexError", out |-> << >>]
    ELSE EncoderLayers(m.layers, 1,
            [error |-> "none",
             out |-> Dropout3(Embed(m.word_embedding, m.position_embedding, x,
                                    EncoderPositions(Len(x), Len(x[1]))),
                              m.dropout, m.training, rng)],
            mask, m.training, rng)

\* the mean of one vector
MeanVec(v) == IF HasNaN(v) THEN NaN ELSE RDiv(SumSeq(v), Len(v))

\* the sum over the sequence axis in place of the mean
SumPool(enc_out) ==
    Tensor([n \in 1..Len(enc_out) |-> Tensor([e \in 1..Len(enc_out[n][1]) |->
        SumSeq(Tensor([l \in 1..Len(enc_out[n]) |-> enc_out[n][l][e]]))])])

\* enc_out.mean(dim=1) of a [N, seq_length, embed] tensor
MeanPool(enc_out) ==
    Tensor([n \in 1..Len(enc_out) |-> Tensor([e \in 1..Len(enc_out[n][1]) |->
        MeanVec(Tensor([l \in 1..Len(enc_out[n]) |-> enc_out[n][l][e]]))])])

\* self.fc(enc_out) on the pooled vectors
ClassifierHead(m, enc_out, pooled) ==
    [error |-> "none",
     enc_out |-> enc_out,
     pooled |-> pooled,
     out |-> Tensor([n \in 1..Len(pooled) |-> LinearVec(m.fc, pooled[n])])]

\* lines 327-329: the pooling and the head, from what the encoder returns
ClassifierOutput(m, enc) ==
    IF enc.error # "none"
    THEN [error |-> enc.error, enc_out |-> << >>, pooled |-> << >>, out |-> << >>]
    ELSE ClassifierHead(m, enc.out, MeanPool(enc.out))

\* TransformerClassifier.forward
ClassifierForward(m, x, mask, rng) == ClassifierOutput(m, EncoderForward(m, x, mask, rng))

\* ------------------------------------------------------------ the inputs

\* a configuration main.py's shape of call accepts, at small sizes
DecoderBase ==
    [vocab_size |-> 2, max_seq_len |-> 3, embed_dim |-> 4, num_heads |-> 2,
     ff_hidden_dim |-> 2, num_layers |-> 1, dropout |-> 0]

ClassifierBase ==
    [vocab_size |-> 2, max_seq_len |-> 3, embed_dim |-> 4, num_heads |-> 2,
     forward_expansion |-> 1, num_layers |-> 1, dropout |-> 0, num_classes |-> 3]

\* the values construction is tried with; head counts that do not divide the
\* width and values outside the documented ranges are among them
EmbedDims == {2, 4}
HeadCounts == {0, 1, 2, 3}
LayerCounts == {0, 1, 2}
DropoutRates == {0, 50, 100, 150}

\* the configurations tried: the base with its width and head count varied,
\* with its depth varied, with its dropout varied, and with one size 0
DecoderConfigs ==
    {[DecoderBase EXCEPT !.embed_dim = e, !.num_heads = h] : e \in EmbedDims, h \in HeadCounts}
    \cup {[DecoderBase EXCEPT !.num_layers = n, !.num_heads = h] : n \in LayerCounts, h \in {2, 3}}
    \cup {[DecoderBase EXCEPT !.dropout = p] : p \in DropoutRates}
    \cup {[DecoderBase EXCEPT !.vocab_size = 0],
          [DecoderBase EXCEPT !.max_seq_len = 0],
          [DecoderBase EXCEPT !.ff_hidden_dim = 0]}

ClassifierConfigs ==
    {[ClassifierBase EXCEPT !.embed_dim = e, !.num_heads = h] : e \in EmbedDims, h \in HeadCounts}
    \cup {[ClassifierBase EXCEPT !.num_layers = n, !.num_heads = h] : n \in LayerCounts, h \in {2, 3}}
    \cup {[ClassifierBase EXCEPT !.dropout = p] : p \in DropoutRates}
    \cup {[ClassifierBase EXCEPT !.vocab_size = 0],
          [ClassifierBase EXCEPT !.max_seq_len = 0],
          [ClassifierBase EXCEPT !.forward_expansion = 0]}

\* the shapes of the id tensors fed to a stack
IdShapes == {s \in (1..MaxCells) \X (1..MaxCells) : s[1] * s[2] <= MaxCells}

\* the id tensors fed to a stack: every id is a token of the vocabulary
IdTensors == UNION {[1..s[1] -> [1..s[2] -> 0..(DecoderBase.vocab_size - 1)]] : s \in IdShapes}

\* a [rows, cols] mask with every entry v
ConstMask(rows, cols, v) == Tensor([i \in 1..rows |-> Tensor([j \in 1..cols |-> v])])

\* the masks a forward call is given: none, a causal mask of some length, and
\* externally built masks of one row: one that blocks everything and the
\* first row of a causal mask
Masks ==
    {NoMask} \cup {create_mask(n) : n \in 1..DecoderBase.max_seq_len}
    \cup {ConstMask(1, 1, TRUE), <<create_mask(2)[1]>>}

\* the draws of the random number generator dropout consumes
Rngs == {0, 1}

\* --------------------------------------------------------------- state

VARIABLES
    model,  \* the stack the program holds: none, a decoder or a classifier
    last    \* the call the program made last and what it returned

vars == <<model, last>>

NoModel == [kind |-> "none"]

Nothing == [op |-> "none"]

Init ==
    /\ model = NoModel
    /\ last = Nothing

\* model = TransformerDecoder(...)
ConstructDecoder ==
    /\ last = Nothing
    /\ model = NoModel
    /\ \E cfg \in DecoderConfigs, seed \in 1..NumSeeds :
        LET error == DecoderConfigError(cfg)
        IN /\ model' = IF error = "none" THEN NewDecoder(cfg, seed) ELSE NoModel
           /\ last' = [op |-> "construct", kind |-> "decoder", config |-> cfg, error |-> error]

\* classifier = TransformerClassifier(...)
ConstructClassifier ==
    /\ last = Nothing
    /\ model = NoModel
    /\ \E cfg \in ClassifierConfigs, seed \in 1..NumSeeds :
        LET error == ClassifierConfigError(cfg)
        IN /\ model' = IF error = "none" THEN NewClassifier(cfg, seed) ELSE NoModel
           /\ last' = [op |-> "construct", kind |-> "classifier", config |-> cfg, error |-> error]

\* model.eval()
Eval ==
    /\ last = Nothing
    /\ model.kind # "none"
    /\ model.training
    /\ model' = [model EXCEPT !.training = FALSE]
    /\ UNCHANGED last

\* model.train()
Train ==
    /\ last = Nothing
    /\ model.kind # "none"
    /\ ~model.training
    /\ model' = [model EXCEPT !.training = TRUE]
    /\ UNCHANGED last

\* mask = create_mask(n)
CreateMask ==
    /\ last = Nothing
    /\ \E n \in 1..MaxCells :
        last' = [op |-> "create_mask", seq_len |-> n, mask |-> create_mask(n)]
    /\ UNCHANGED model

\* whether dropout draws random numbers in a forward call of m
DropoutActive(m) == m.training /\ m.dropout > 0

\* outputs, attn_maps = model(x, mask)
CallDecoder ==
    /\ last = Nothing
    /\ model.kind = "decoder"
    /\ \E x \in IdTensors, mask \in Masks, rng \in Rngs :
        /\ DropoutActive(model) \/ rng = 0
        /\ last' = [op |-> "decoder_forward", x |-> x, mask |-> mask, rng |-> rng,
                    result |-> DecoderForward(model, x, mask, rng)]
    /\ UNCHANGED model

\* the assignment outputs,_ = r of a returned tensor r: the tensor is iterated
\* along its first axis and has to hold exactly two rows
TupleUnpack(r) ==
    IF r.error # "none" THEN [error |-> r.error, outputs |-> << >>]
    ELSE IF Len(r.out) # 2 THEN [error |-> "ValueError", outputs |-> << >>]
    ELSE [error |-> "none", outputs |-> r.out[1]]

\* outputs,_ = classifier(x)
CallClassifier ==
    /\ last = Nothing
    /\ model.kind = "classifier"
    /\ \E x \in IdTensors, rng \in Rngs :
        /\ DropoutActive(model) \/ rng = 0
        /\ last' = [op |-> "classifier_forward", x |-> x, mask |-> NoMask, rng |-> rng,
                    result |-> ClassifierForward(model, x, NoMask, rng),
                    unpacked |-> TupleUnpack(ClassifierForward(model, x, NoMask, rng))]
    /\ UNCHANGED model

\* the caller is done with the result of its last call
Proceed ==
    /\ last # Nothing
    /\ last' = Nothing
    /\ UNCHANGED model

Next ==
    \/ ConstructDecoder
    \/ ConstructClassifier
    \/ Eval
    \/ Train
    \/ CreateMask
    \/ CallDecoder
    \/ CallClassifier
    \/ Proceed

Spec == Init /\ [][Next]_vars

\* ---------------------------------------------------- what the calls show

\* the last call was a decoder forward call that returned
DecoderReturned ==
    /\ last.op = "decoder_forward"
    /\ last.result.error = "none"

\* the last call was a classifier forward call that returned
ClassifierReturned ==
    /\ last.op = "classifier_forward"
    /\ last.result.error = "none"

\* the id tensors of the shape of x
SameShape(x) == {y \in IdTensors : Len(y) = Len(x) /\ Len(y[1]) = Len(x[1])}

\* x and y hold the same ids in rows 1..i
AgreeUpTo(x, y, i) == \A l \in 1..i : y[l] = x[l]

\* C1: the logits at position i of a decoder called with create_mask(L), dropout
\* disabled, are the same for any two inputs that agree at positions <= i
Causality ==
    (DecoderReturned /\ ~DropoutActive(model) /\ last.mask = create_mask(Len(last.x)))
    => \A y \in SameShape(last.x) : \A i \in 1..Len(last.x) :
            AgreeUpTo(last.x, y, i)
            => DecoderForward(model, y, last.mask, 0).logits[i] = last.result.logits[i]

\* a causal call on a stack of two layers where changing the ids after the first
\* position changes the logits, but not those of the first position
CausalityWitness ==
    /\ DecoderReturned /\ ~DropoutActive(model) /\ last.mask = create_mask(Len(last.x))
    /\ Len(model.layers) = 2
    /\ Len(last.x) >= 3
    /\ \E y \in SameShape(last.x) :
        /\ y[1] = last.x[1]
        /\ y[2] = last.x[2]
        /\ DecoderForward(model, y, last.mask, 0).logits[3] # last.result.logits[3]
        /\ DecoderForward(model, y, last.mask, 0).logits[2] = last.result.logits[2]

\* C2: create_mask(n) is an n x n boolean matrix whose entry [i][j] is true
\* exactly when j > i, so the diagonal is false and no row is entirely true
MaskIsStrictUpper ==
    last.op = "create_mask"
    => /\ Shape2(last.mask) = <<last.seq_len, last.seq_len>>
       /\ \A i, j \in 1..last.seq_len : last.mask[i][j] <=> (j > i)
       /\ \A i \in 1..last.seq_len : ~last.mask[i][i]
       /\ \A i \in 1..last.seq_len : \E j \in 1..last.seq_len : ~last.mask[i][j]

\* a mask of three rows or more was created: it has entries on, above and
\* below the diagonal
MaskIsStrictUpperWitness ==
    /\ last.op = "create_mask"
    /\ last.seq_len >= 3
    /\ last.mask[1][3]
    /\ ~last.mask[3][1]

\* the configurations in which num_heads does not divide embed_dim
NonDividing(cfg) ==
    /\ cfg.num_heads # 0
    /\ cfg.embed_dim % cfg.num_heads # 0

\* C3: a head count that does not divide embed_dim makes construction fail, for
\* both stacks, so no model exists with a non-dividing head count
NonDividingNeverConstructed ==
    /\ (last.op = "construct" /\ NonDividing(last.config))
            => (last.error # "none" /\ model = NoModel)
    /\ model # NoModel => ~NonDividing(model.config)

\* C4: for valid ids and mask the decoder returns logits of shape
\* [L, B, vocab_size] for ids of shape [L, B], and the classifier returns
\* logits of shape [B, num_classes] for ids of shape [B, L]
ShapeLaw ==
    /\ (/\ last.op = "decoder_forward"
        /\ Len(last.x) <= model.config.max_seq_len
        /\ IdsInRange(last.x, model.config.vocab_size)
        /\ last.mask \in {NoMask, create_mask(Len(last.x))})
       => /\ last.result.error = "none"
          /\ Shape3(last.result.logits)
                = <<Len(last.x), Len(last.x[1]), model.config.vocab_size>>
    /\ (/\ last.op = "classifier_forward"
        /\ Len(last.x[1]) <= model.config.max_seq_len
        /\ IdsInRange(last.x, model.config.vocab_size))
       => /\ last.result.error = "none"
          /\ Shape2(last.result.out) = <<Len(last.x), model.config.num_classes>>

\* a decoder of one layer or more has returned logits for valid ids whose two
\* axes differ in length
ShapeLawWitness ==
    /\ DecoderReturned
    /\ Len(model.layers) >= 1
    /\ Len(last.x) = 3
    /\ Len(last.x[1]) = 1
    /\ last.mask = create_mask(3)
    /\ model.config.vocab_size # model.config.embed_dim
    /\ Shape3(last.result.logits) = <<3, 1, model.config.vocab_size>>

\* the sum of row i of the attention map of batch element b
RowSum(attn_map, b, i) == SumSeq(attn_map[b][i])

\* what fixed point loses in a row of seq_len probabilities: less than one unit
\* per entry in the softmax and less than one in the mean over heads
RowTolerance(seq_len) == 2 * seq_len

\* C5: with dropout disabled, with or without the causal mask, every row of
\* every attention map sums to 1 (within the fixed-point tolerance) and every
\* entry the mask flags has probability 0
AttentionRowsSumToOne ==
    (/\ DecoderReturned
     /\ ~DropoutActive(model)
     /\ last.mask \in {NoMask, create_mask(Len(last.x))})
    => \A k \in 1..Len(last.result.attn_maps) :
        /\ Shape3(last.result.attn_maps[k]) = <<Len(last.x[1]), Len(last.x), Len(last.x)>>
        /\ \A b \in 1..Len(last.x[1]) : \A i \in 1..Len(last.x) :
            /\ RowSum(last.result.attn_maps[k], b, i) <= One
            /\ One - RowSum(last.result.attn_maps[k], b, i) < RowTolerance(Len(last.x))
            /\ \A j \in 1..Len(last.x) :
                (last.mask # NoMask /\ last.mask[i][j])
                => last.result.attn_maps[k][b][i][j] = 0

\* a causal call of three positions whose last row spreads its probability
\* unevenly over the three positions it may attend to
AttentionRowsSumToOneWitness ==
    /\ DecoderReturned
    /\ ~DropoutActive(model)
    /\ Len(last.x) = 3
    /\ last.mask = create_mask(3)
    /\ Len(last.result.attn_maps) >= 1
    /\ last.result.attn_maps[1][1][1][2] = 0
    /\ \A j \in 1..3 : last.result.attn_maps[1][1][3][j] > 0
    /\ last.result.attn_maps[1][1][3][1] # last.result.attn_maps[1][1][3][2]

\* C6: a mask of any shape other than [seq_len, seq_len] makes the forward
\* call fail; it is never broadcast into a usable mask
MismatchedMaskFails ==
    (/\ last.op = "decoder_forward"
     /\ last.mask # NoMask
     /\ Shape2(last.mask) # <<Len(last.x), Len(last.x)>>)
    => last.result.error # "none"

\* the configurations the documented ranges admit: every size positive and
\* dropout in [0, 1)
ValidConfig(kind, cfg) ==
    /\ cfg.vocab_size > 0
    /\ cfg.max_seq_len > 0
    /\ cfg.embed_dim > 0
    /\ cfg.num_heads > 0
    /\ cfg.num_layers > 0
    /\ IF kind = "decoder" THEN cfg.ff_hidden_dim > 0
       ELSE cfg.forward_expansion * cfg.embed_dim > 0 /\ cfg.num_classes > 0
    /\ cfg.dropout >= 0
    /\ cfg.dropout < 100

\* C7: construction with a non-positive size or with dropout outside [0, 1)
\* fails and creates no model
ConfigurationValidated ==
    (last.op = "construct" /\ ~ValidConfig(last.kind, last.config))
    => (last.error # "none" /\ model = NoModel)

\* C8: the classifier's logits are the final projection of the mean over the
\* sequence axis of the encoder's output of each batch element, every position
\* weighing 1 / seq_len, with one pooled vector per batch element
MeanPoolOverSequence ==
    ClassifierReturned
    => /\ Shape3(last.result.enc_out) = <<Len(last.x), Len(last.x[1]), model.config.embed_dim>>
       /\ Shape2(last.result.pooled) = <<Len(last.x), model.config.embed_dim>>
       /\ \A n \in 1..Len(last.x) : \A e \in 1..model.config.embed_dim :
            2 * Abs(Len(last.x[1]) * last.result.pooled[n][e]
                    - SumSeq(Tensor([l \in 1..Len(last.x[1]) |-> last.result.enc_out[n][l][e]])))
                <= Len(last.x[1])
       /\ \A n \in 1..Len(last.x) :
            last.result.out[n] = LinearVec(model.fc, last.result.pooled[n])

\* a classifier call on sequences of three ids, a padding 0 among them, whose
\* encoder output differs between positions
MeanPoolOverSequenceWitness ==
    /\ ClassifierReturned
    /\ Len(model.layers) >= 1
    /\ Len(last.x[1]) = 3
    /\ last.x[1][3] = 0
    /\ last.x[1][1] = 1
    /\ last.result.enc_out[1][1] # last.result.enc_out[1][3]
    /\ \E e \in 1..model.config.embed_dim :
        last.result.pooled[1][e] \notin {last.result.enc_out[1][l][e] : l \in 1..3}

\* C9: with dropout disabled a second forward call on the same input returns
\* what the first returned, whatever the random number generator holds then,
\* and the first call has left the model as it was
Determinism ==
    /\ (last.op = "decoder_forward" /\ ~DropoutActive(model))
       => \A rng \in Rngs :
            DecoderForward(model, last.x, last.mask, rng) = last.result
    /\ (last.op = "classifier_forward" /\ ~DropoutActive(model))
       => \A rng \in Rngs :
            ClassifierForward(model, last.x, last.mask, rng) = last.result

\* a stack built with dropout 0.5 and put in eval mode has answered a call,
\* and would have answered differently in training mode
DeterminismWitness ==
    /\ DecoderReturned
    /\ model.dropout = 50
    /\ ~model.training
    /\ Len(last.x) >= 2
    /\ DecoderForward([model EXCEPT !.training = TRUE], last.x, last.mask, 1) # last.result

\* C10: the classifier's logits of batch element b depend only on the ids of
\* element b: attention never relates two batch elements
BatchElementsIndependent ==
    (ClassifierReturned /\ ~DropoutActive(model))
    => \A y \in SameShape(last.x) : \A b \in 1..Len(last.x) :
            y[b] = last.x[b]
            => ClassifierForward(model, y, NoMask, 0).out[b] = last.result.out[b]

\* lines 117-118: what TransformerDecoder.forward hands to its first layer
DecoderEmbedded(m, x, rng) ==
    Dropout3(Embed(m.token_embedding, m.position_embedding, x,
                   DecoderPositions(Len(x), Len(x[1]))),
             m.dropout, m.training, rng)

\* line 303: what Encoder.forward hands to its first layer
EncoderEmbedded(m, x, rng) ==
    Dropout3(Embed(m.word_embedding, m.position_embedding, x,
                   EncoderPositions(Len(x), Len(x[1]))),
             m.dropout, m.training, rng)

\* the tensor layer k of decoder m is called with in a forward call on x
DecoderLayerInput(m, x, mask, rng, k) ==
    DecoderLayers(SubSeq(m.layers, 1, k - 1), 1,
        [error |-> "none", x |-> DecoderEmbedded(m, x, rng), attn_maps |-> << >>],
        mask, m.training, rng).x

\* the tensor layer k of the encoder of m is called with in a forward call on x
EncoderLayerInput(m, x, mask, rng, k) ==
    EncoderLayers(SubSeq(m.layers, 1, k - 1), 1,
        [error |-> "none", out |-> EncoderEmbedded(m, x, rng)],
        mask, m.training, rng).out

\* the residual block as documented: normalize(x + dropout(y))
ResidualBlock(ln, x, y, p, training, rng) ==
    LayerNorm3(ln, Add3(x, Dropout3(y, p, training, rng)))

\* the documented block around the feed-forward network of a decoder block
DecoderFeedForwardBlock(block, x, training, rng) ==
    ResidualBlock(block.layernorm2, x, DecoderFFN(block, x), block.dropout, training, rng + 2)

\* a decoder block as documented: the block around attention, then the block
\* around the feed-forward network
DecoderBlockDocumented(block, x, attn, training, rng) ==
    DecoderFeedForwardBlock(block,
        ResidualBlock(block.layernorm1, x, attn.output, block.dropout, training, rng + 1),
        training, rng)

\* the documented block around the feed-forward network of an encoder layer
EncoderFeedForwardBlock(layer, x, training, rng) ==
    ResidualBlock(layer.norm2, x, FeedForward(layer.feed_forward, x),
                  layer.dropout, training, rng + 2)

\* an encoder layer as documented
EncoderLayerDocumented(layer, x, attn, training, rng) ==
    EncoderFeedForwardBlock(layer,
        ResidualBlock(layer.norm1, x, attn.output, layer.dropout, training, rng + 1),
        training, rng)

\* what layer k of the decoder returned in the last call, against the
\* documented blocks applied to what it was called with
DecoderLayerAsDocumented(x, k) ==
    DecoderBlockForward(model.layers[k], x, last.mask, model.training, last.rng + 3 * k).x
    = DecoderBlockDocumented(model.layers[k], x,
        AttentionForward(model.layers[k].self_attn, x, x, x, last.mask,
                         model.training, last.rng + 3 * k),
        model.training, last.rng + 3 * k)

\* the same for layer k of the encoder
EncoderLayerAsDocumented(x, k) ==
    EncoderLayerForward(model.layers[k], x, last.mask, model.training, last.rng + 3 * k).out
    = EncoderLayerDocumented(model.layers[k], x,
        AttentionForward(model.layers[k].attention, x, x, x, last.mask,
                         model.training, last.rng + 3 * k),
        model.training, last.rng + 3 * k)

\* C11: in every layer of both stacks each of the two residual blocks is
\* normalize(x + dropout(y)): dropout on the sub-layer output before the
\* addition, normalization last
ResidualBlocksNormalizeLast ==
    /\ DecoderReturned
       => \A k \in 1..Len(model.layers) :
            DecoderLayerAsDocumented(
                DecoderLayerInput(model, last.x, last.mask, last.rng, k), k)
    /\ ClassifierReturned
       => \A k \in 1..Len(model.layers) :
            EncoderLayerAsDocumented(
                EncoderLayerInput(model, last.x, last.mask, last.rng, k), k)

\* the map layer k of the decoder computed in the last call
DecoderLayerMap(x, k) ==
    AttentionForward(model.layers[k].self_attn, x, x, x, last.mask,
                     model.training, last.rng + 3 * k).attn_map

\* C12: every layer consumes the previous layer's output and returns its own
\* attention map with its updated tensor: the decoder returns num_layers maps
\* in layer order, and an encoder layer returns the map of its attention call
LayersReturnTheirMaps ==
    /\ DecoderReturned
       => /\ Len(last.result.attn_maps) = model.config.num_layers
          /\ \A k \in 1..Len(model.layers) :
                last.result.attn_maps[k]
                = DecoderLayerMap(DecoderLayerInput(model, last.x, last.mask, last.rng, k), k)
    /\ ClassifierReturned
       => \A k \in 1..Len(model.layers) :
            "attn_map" \in DOMAIN EncoderLayerForward(model.layers[k],
                    EncoderLayerInput(model, last.x, last.mask, last.rng, k),
                    last.mask, model.training, last.rng + 3 * k)

\* the attention module of layer k of the model
LayerAttention(k) ==
    IF model.kind = "decoder" THEN model.layers[k].self_attn ELSE model.layers[k].attention

\* the map layer k of the decoder would compute in eval mode from x
DecoderLayerMapEval(x, k) ==
    AttentionForward(model.layers[k].self_attn, x, x, x, last.mask, FALSE, 0).attn_map

\* C13, as the documentation has it: the dropout probability the stack was
\* built with is the one every layer's attention applies after the softmax
AttentionDropoutIsStackDropout ==
    model # NoModel
    => \A k \in 1..Len(model.layers) : LayerAttention(k).dropout = model.config.dropout

\* C13, as the code has it: every layer's attention is built with dropout 0
\* whatever the stack's dropout is, so the attention probabilities are never
\* dropped: in training mode too the maps are those of eval mode on the same
\* layer input
AttentionDropoutIsZero ==
    /\ model # NoModel
       => \A k \in 1..Len(model.layers) : LayerAttention(k).dropout = 0
    /\ DecoderReturned
       => \A k \in 1..Len(model.layers) :
            last.result.attn_maps[k]
            = DecoderLayerMapEval(DecoderLayerInput(model, last.x, last.mask, last.rng, k), k)

\* a decoder built with dropout 0.5 has answered a call in training mode, and
\* its dropout changed the logits
AttentionDropoutIsZeroWitness ==
    /\ DecoderReturned
    /\ model.config.dropout = 50
    /\ model.training
    /\ Len(model.layers) >= 1
    /\ Len(last.x) >= 2
    /\ last.mask = create_mask(Len(last.x))
    /\ last.result.logits
       # DecoderForward([model EXCEPT !.training = FALSE], last.x, last.mask, 0).logits

\* whether attn_mask, laid over seq_len positions, flags every column of
\* some row
BlocksARow(attn_mask, seq_len) ==
    /\ attn_mask # NoMask
    /\ MaskFits(attn_mask, seq_len)
    /\ \E i \in 1..seq_len : \A j \in 1..seq_len : MaskAt(attn_mask, i, j)

\* C14: a mask that flags every column of some row is rejected: the forward
\* call fails and no softmax is taken over a row of scores that are all masked
FullyBlockedRowRejected ==
    (last.op = "decoder_forward" /\ BlocksARow(last.mask, Len(last.x)))
    => last.result.error # "none"

\* a [seq_len, batch_size, embed_dim] tensor whose every element names its
\* own index
IndexTensor(seq_len, batch_size, embed_dim) ==
    Tensor([l \in 1..seq_len |-> Tensor([b \in 1..batch_size |-> Tensor([e \in 1..embed_dim |->
        (l * 10000) + (b * 100) + e])])])

\* S is the split of X: head h of batch element b is slice (b-1)*H + h
\* (counting from 1) and holds channels (h-1)*D + 1 .. h*D; and the merge of S
\* is X again
SplitIsIndexConsistent(X, S, num_heads, head_dim) ==
    /\ Shape3(S) = <<Len(X[1]) * num_heads, Len(X), head_dim>>
    /\ \A b \in 1..Len(X[1]) : \A h \in 1..num_heads :
       \A l \in 1..Len(X) : \A d \in 1..head_dim :
            S[(b - 1) * num_heads + h][l][d] = X[l][b][(h - 1) * head_dim + d]
    /\ MergeHeads(S, Len(X[1]), num_heads, head_dim) = X

\* the probabilities the first layer's attention computed in the last call,
\* one [seq_len, seq_len] matrix per slice
FirstLayerProbs(attn, x) ==
    AttentionProbs(attn,
        SplitHeads(Linear3(attn.query, x), attn.num_heads, attn.head_dim),
        SplitHeads(Linear3(attn.key, x), attn.num_heads, attn.head_dim),
        last.mask, model.training, last.rng + 3)

\* entry [b][i][j] of attn_map is the mean of the num_heads slices of batch
\* element b
MapAveragesOwnSlices(attn_map, probs, num_heads) ==
    \A b \in 1..Len(attn_map) : \A i \in 1..Len(attn_map[b]) : \A j \in 1..Len(attn_map[b][i]) :
        attn_map[b][i][j]
        = SumSeq(Tensor([h \in 1..num_heads |-> probs[(b - 1) * num_heads + h][i][j]]))
            \div num_heads

\* C15: splitting into heads places head h of batch element b at slice
\* b*num_heads + h holding channels h*head_dim .. (h+1)*head_dim - 1, merging
\* is its inverse, and the attention map of batch element b averages the
\* num_heads slices of that element
HeadSplitMergeConsistent ==
    (/\ DecoderReturned
     /\ Len(model.layers) >= 1
     /\ last.mask \in {NoMask, create_mask(Len(last.x))})
    => /\ SplitIsIndexConsistent(
            IndexTensor(Len(last.x), Len(last.x[1]), model.config.embed_dim),
            SplitHeads(IndexTensor(Len(last.x), Len(last.x[1]), model.config.embed_dim),
                       model.layers[1].self_attn.num_heads, model.layers[1].self_attn.head_dim),
            model.layers[1].self_attn.num_heads, model.layers[1].self_attn.head_dim)
       /\ SplitIsIndexConsistent(
            DecoderEmbedded(model, last.x, last.rng),
            SplitHeads(DecoderEmbedded(model, last.x, last.rng),
                       model.layers[1].self_attn.num_heads, model.layers[1].self_attn.head_dim),
            model.layers[1].self_attn.num_heads, model.layers[1].self_attn.head_dim)
       /\ MapAveragesOwnSlices(last.result.attn_maps[1],
            FirstLayerProbs(model.layers[1].self_attn, DecoderEmbedded(model, last.x, last.rng)),
            model.layers[1].self_attn.num_heads)

\* a call with two heads, two batch elements and two positions or more, in
\* which the two heads of the first batch element hold different probabilities
HeadSplitMergeConsistentWitness ==
    /\ DecoderReturned
    /\ Len(model.layers) >= 1
    /\ last.mask = create_mask(Len(last.x))
    /\ model.config.num_heads = 2
    /\ Len(last.x) >= 2
    /\ Len(last.x[1]) >= 2
    /\ FirstLayerProbs(model.layers[1].self_attn, DecoderEmbedded(model, last.x, last.rng))[1]
       # FirstLayerProbs(model.layers[1].self_attn, DecoderEmbedded(model, last.x, last.rng))[2]

====
